---- MODULE Spec2Model ----
(***************************************************************************)
(* Aether particle simulator: the Simulator component's particle store and *)
(* undo/redo stacks (pages/Simulator.jsx, bundled in ConfigPanel.jsx), the *)
(* Spawner key handler (canvas/ParticleCanvas.jsx), the load handlers      *)
(* (components/ConfigPanel.jsx), cloneParticles (utils/cloneParticles.js)  *)
(* the per-frame physics and the instance buffer of InstancedParticleField *)
(* and the save endpoint of the backend (ParticleConfigController,         *)
(* ParticleStorageService).                                                *)
(*                                                                         *)
(* THREE.Vector3 objects are mutable and shared by reference, so vectors   *)
(* live in a heap and a particle object holds the addresses of its         *)
(* position and velocity vectors.  Numbers are fixed-point: Scale units    *)
(* make 1.0, products are rounded toward zero.                             *)
(***************************************************************************)
EXTENDS Integers, Sequences, FiniteSets, TLC

VARIABLES
  heap,        \* Seq(Vec): the live THREE.Vector3 objects, by address
  particles,   \* useState particles: Seq of particle objects
  undoStack,   \* useState undoStack: Seq of batches (Seq of particle objects)
  redoStack,   \* useState redoStack: Seq of batches
  settings,    \* useState settings
  meshCount,   \* mesh.count of the instanced mesh
  instanceMatrix, \* mesh.instanceMatrix: one transform per instance slot
  instanceColor,  \* the geometry's instanceColor attribute: one color per entry
  mounted,     \* the Simulator page is mounted
  listeners,   \* the keydown listeners registered on window: spawn holds the
               \* closures of Spawner's handleKeyDown (each with the settings of
               \* the render that registered it), kick those of handleForceKick
  files,       \* backend: the files of the SavedConfigs directory, by path
  requests,    \* backend: the save requests between the Exists check and the write
  answers,     \* history: the configurations and results of the save requests
               \* answered since their name was last deleted
  ticks,       \* number of frames and force-kicks run so far (bounded)
  pass,        \* the loop index i of a running useFrame callback (1-based: the
               \* next particle to advance), 0 while none runs
  lastOp,      \* history: the name of the handler that produced this state
               \* ("loadFailed": a load that ended in its error report)
  log,         \* history: spawn-time values of the batches of the current timeline
  preUndo      \* history: <<store values before the undo>> right after an undo
               \* that popped a batch, kept across a redo that follows it directly

vars == <<heap, particles, undoStack, redoStack, settings, meshCount,
          instanceMatrix, instanceColor, mounted, listeners, files, requests,
          answers, ticks, pass, lastOp, log, preUndo>>

backendVars == <<files, requests, answers>>

----------------------------------------------------------------------------
(* Bounds of the model *)

\* The store holds at most MaxStore particles.
MaxStore == 3

\* The undo stack holds at most MaxBatches batches.
MaxBatches == 2

\* At most MaxTicks frames and force-kicks are run.
MaxTicks == 1

\* At most MaxSaves save requests are in flight or answered at a time.
MaxSaves == 2

(* Program constants, in fixed-point units *)

\* One unit of the fixed-point representation of a JS number is 1/Scale.
Scale == 100000

\* const BOUNDS = 200
BOUNDS == 200 * Scale

\* const DRAG = 0.995, as a per-mille factor
DRAG_PERMILLE == 995

\* const BOUNCE_FACTOR = 0.8, as a per-cent factor
BOUNCE_PERCENT == 80

\* <instancedMesh args={[undefined, undefined, 10000]}>: the number of instance
\* slots.  The source allocates 10000; the model scales the capacity down so that
\* a store one batch larger than the buffer is within MaxStore.
CAPACITY == 2

----------------------------------------------------------------------------
(* Arithmetic on fixed-point numbers and vectors *)

Abs(x) == IF x >= 0 THEN x ELSE -x

\* x * num / den, rounded toward zero
MulDiv(x, num, den) ==
  IF x >= 0 THEN (x * num) \div den ELSE -(((-x) * num) \div den)

Max(a, b) == IF a >= b THEN a ELSE b
Min(a, b) == IF a <= b THEN a ELSE b

\* Vector3.add
VecAdd(a, b) == <<a[1] + b[1], a[2] + b[2], a[3] + b[3]>>

\* Vector3.multiplyScalar by num/den
VecScale(a, num, den) ==
  <<MulDiv(a[1], num, den), MulDiv(a[2], num, den), MulDiv(a[3], num, den)>>

----------------------------------------------------------------------------
(* Heap of vectors and particle objects *)

\* The value view of one particle object: its vectors read from the heap.
ViewParticle(h, p) ==
  [position |-> h[p.position], velocity |-> h[p.velocity],
   color |-> p.color, size |-> p.size, gravity |-> p.gravity]

\* The value view of an array of particle objects.
ViewBatch(h, b) == [i \in 1..Len(b) |-> ViewParticle(h, b[i])]

\* The value view of a stack of batches.
ViewStack(h, s) == [k \in 1..Len(s) |-> ViewBatch(h, s[k])]

\* New particle objects with new vectors holding the given values:
\* { position: new Vector3(..), velocity: new Vector3(..), size, color, gravity }
AllocBatch(h, vals) ==
  LET n == Len(vals)
      base == Len(h)
  IN [heap |-> h \o [k \in 1..(2 * n) |->
                       IF k % 2 = 1 THEN vals[(k + 1) \div 2].position
                                    ELSE vals[k \div 2].velocity],
      batch |-> [i \in 1..n |->
                   [position |-> base + 2 * i - 1, velocity |-> base + 2 * i,
                    color |-> vals[i].color, size |-> vals[i].size,
                    gravity |-> vals[i].gravity]]]

\* A faulty clone: copies the particle objects but shares their vectors.
cloneParticlesShallow(h, b) == [heap |-> h, batch |-> b]

\* cloneParticles: particles.map(p => ({position: p.position.clone(),
\* velocity: p.velocity.clone(), color, size, gravity}))
cloneParticles(h, b) == AllocBatch(h, ViewBatch(h, b))

----------------------------------------------------------------------------
(* Garbage collection: vectors no particle object refers to are dropped and *)
(* the remaining addresses renumbered in order of first reference.          *)

RefsOfBatch(b) ==
  [k \in 1..(2 * Len(b)) |->
     IF k % 2 = 1 THEN b[(k + 1) \div 2].position ELSE b[k \div 2].velocity]

RECURSIVE RefsOfStack(_)
RefsOfStack(s) ==
  IF s = <<>> THEN <<>> ELSE RefsOfBatch(Head(s)) \o RefsOfStack(Tail(s))

RECURSIVE Dedupe(_, _)
Dedupe(seq, seen) ==
  IF seq = <<>> THEN <<>>
  ELSE IF Head(seq) \in seen THEN Dedupe(Tail(seq), seen)
       ELSE <<Head(seq)>> \o Dedupe(Tail(seq), seen \cup {Head(seq)})

RenameBatch(b, ren) ==
  [i \in 1..Len(b) |->
     [b[i] EXCEPT !.position = ren[b[i].position], !.velocity = ren[b[i].velocity]]]

\* The live addresses of machine state m, in order of first reference.
LiveRefs(m) ==
  Dedupe(RefsOfBatch(m.particles) \o RefsOfStack(m.undoStack)
           \o RefsOfStack(m.redoStack), {})

\* The new address of each live address.
Renaming(order) ==
  [a \in {order[i] : i \in 1..Len(order)} |->
     CHOOSE i \in 1..Len(order) : order[i] = a]

\* m with the heap cut down to the addresses of order and renamed by ren.
Compact(m, order, ren) ==
  [heap |-> [i \in 1..Len(order) |-> m.heap[order[i]]],
   particles |-> RenameBatch(m.particles, ren),
   undoStack |-> [k \in 1..Len(m.undoStack) |-> RenameBatch(m.undoStack[k], ren)],
   redoStack |-> [k \in 1..Len(m.redoStack) |-> RenameBatch(m.redoStack[k], ren)]]

CollectFrom(m, order) == Compact(m, order, Renaming(order))

\* m is a record [heap, particles, undoStack, redoStack].
Collect(m) == CollectFrom(m, LiveRefs(m))

\* The machine state of the Simulator component.
Machine ==
  [heap |-> heap, particles |-> particles, undoStack |-> undoStack,
   redoStack |-> redoStack]

----------------------------------------------------------------------------
(* Simulator: spawnParticles, undo, redo, clearAll, handleForceKick.        *)
(* Each operator maps the machine state before the handler to the state     *)
(* after React has applied the handler's state updates.                     *)

\* Array.prototype.slice(0, end): a negative end counts from the end of the array.
Slice0(s, end) ==
  LET e == IF end < 0 THEN Max(Len(s) + end, 0) ELSE Min(end, Len(s))
  IN SubSeq(s, 1, e)

\* A faulty spawn: the redo stack is not reset.
spawnParticlesKeepRedo(m, newBatch) ==
  LET c == cloneParticles(m.heap, newBatch)
  IN [heap |-> c.heap,
      undoStack |-> Append(m.undoStack, c.batch),
      redoStack |-> m.redoStack,
      particles |-> m.particles \o newBatch]

\* A faulty spawn: the new particles are put in front of the store.
spawnParticlesPrepend(m, newBatch) ==
  LET c == cloneParticles(m.heap, newBatch)
  IN [heap |-> c.heap,
      undoStack |-> Append(m.undoStack, c.batch),
      redoStack |-> <<>>,
      particles |-> newBatch \o m.particles]

\* A faulty spawn: the particles are appended to the store without a batch on
\* the undo stack.
spawnParticlesNoHistory(m, newBatch) ==
  [heap |-> m.heap,
   undoStack |-> m.undoStack,
   redoStack |-> <<>>,
   particles |-> m.particles \o newBatch]

\* spawnParticles(newBatch)
spawnParticles(m, newBatch) ==
  LET c == cloneParticles(m.heap, newBatch)
  IN [heap |-> c.heap,
      undoStack |-> Append(m.undoStack, c.batch),
      redoStack |-> <<>>,
      particles |-> m.particles \o newBatch]

\* A faulty undo: the batch is popped but the store is not truncated.
undoKeepStore(m) ==
  IF Len(m.undoStack) = 0 THEN m
  ELSE LET lastBatch == m.undoStack[Len(m.undoStack)]
           c == cloneParticles(m.heap, lastBatch)
       IN [heap |-> c.heap,
           undoStack |-> SubSeq(m.undoStack, 1, Len(m.undoStack) - 1),
           redoStack |-> Append(m.redoStack, c.batch),
           particles |-> m.particles]

\* A faulty undo: no check for an empty undo stack; popping an empty array
\* yields undefined, which the handler would push as a batch of no particles.
undoUnguarded(m) ==
  LET lastBatch == IF Len(m.undoStack) = 0 THEN <<>>
                   ELSE m.undoStack[Len(m.undoStack)]
      c == cloneParticles(m.heap, lastBatch)
  IN [heap |-> c.heap,
      undoStack |-> SubSeq(m.undoStack, 1, Len(m.undoStack) - 1),
      redoStack |-> Append(m.redoStack, c.batch),
      particles |-> Slice0(m.particles, Len(m.particles) - Len(lastBatch))]

\* A faulty undo: one particle is removed from the store, whatever the batch length.
undoOneParticle(m) ==
  IF Len(m.undoStack) = 0 THEN m
  ELSE LET lastBatch == m.undoStack[Len(m.undoStack)]
           c == cloneParticles(m.heap, lastBatch)
       IN [heap |-> c.heap,
           undoStack |-> SubSeq(m.undoStack, 1, Len(m.undoStack) - 1),
           redoStack |-> Append(m.redoStack, c.batch),
           particles |-> Slice0(m.particles, Len(m.particles) - 1)]

\* A faulty undo: the popped batch is pushed on the redo stack twice.
undoPushTwice(m) ==
  IF Len(m.undoStack) = 0 THEN m
  ELSE LET lastBatch == m.undoStack[Len(m.undoStack)]
           c == cloneParticles(m.heap, lastBatch)
           d == cloneParticles(c.heap, lastBatch)
       IN [heap |-> d.heap,
           undoStack |-> SubSeq(m.undoStack, 1, Len(m.undoStack) - 1),
           redoStack |-> Append(Append(m.redoStack, c.batch), d.batch),
           particles |-> Slice0(m.particles, Len(m.particles) - Len(lastBatch))]

\* All particle objects of a stack of batches, bottom batch first.
RECURSIVE Flatten(_)
Flatten(s) == IF s = <<>> THEN <<>> ELSE Head(s) \o Flatten(Tail(s))

\* A faulty undo: the store is rebuilt from copies of the batches left on the
\* undo stack.
undoRebuildStore(m) ==
  IF Len(m.undoStack) = 0 THEN m
  ELSE LET lastBatch == m.undoStack[Len(m.undoStack)]
           left == SubSeq(m.undoStack, 1, Len(m.undoStack) - 1)
           c == cloneParticles(m.heap, lastBatch)
           r == cloneParticles(c.heap, Flatten(left))
       IN [heap |-> r.heap,
           undoStack |-> left,
           redoStack |-> Append(m.redoStack, c.batch),
           particles |-> r.batch]

\* undo()
undo(m) ==
  IF Len(m.undoStack) = 0 THEN m
  ELSE LET lastBatch == m.undoStack[Len(m.undoStack)]
           c == cloneParticles(m.heap, lastBatch)
       IN [heap |-> c.heap,
           undoStack |-> SubSeq(m.undoStack, 1, Len(m.undoStack) - 1),
           redoStack |-> Append(m.redoStack, c.batch),
           particles |-> Slice0(m.particles, Len(m.particles) - Len(lastBatch))]

\* A faulty redo: the oldest undone batch is restored instead of the latest.
redoOldest(m) ==
  IF Len(m.redoStack) = 0 THEN m
  ELSE LET batchToRestore == m.redoStack[1]
           c == cloneParticles(m.heap, batchToRestore)
       IN [heap |-> c.heap,
           redoStack |-> SubSeq(m.redoStack, 2, Len(m.redoStack)),
           undoStack |-> Append(m.undoStack, c.batch),
           particles |-> m.particles \o batchToRestore]

\* redo()
redo(m) ==
  IF Len(m.redoStack) = 0 THEN m
  ELSE LET batchToRestore == m.redoStack[Len(m.redoStack)]
           c == cloneParticles(m.heap, batchToRestore)
       IN [heap |-> c.heap,
           redoStack |-> SubSeq(m.redoStack, 1, Len(m.redoStack) - 1),
           undoStack |-> Append(m.undoStack, c.batch),
           particles |-> m.particles \o batchToRestore]

\* clearAll()
clearAll(m) ==
  IF Len(m.particles) = 0 THEN m
  ELSE [heap |-> m.heap, undoStack |-> <<>>, redoStack |-> <<>>,
        particles |-> <<>>]

\* A faulty kick: the deltas are drawn from twice the range (randFloatSpread(2)).
handleForceKickWide(m, deltas) ==
  LET n == Len(m.particles)
      base == Len(m.heap)
  IN [heap |-> m.heap \o
                 [i \in 1..n |-> VecAdd(m.heap[m.particles[i].velocity],
                                        VecScale(deltas[i], 2, 1))],
      undoStack |-> m.undoStack,
      redoStack |-> m.redoStack,
      particles |-> [i \in 1..n |-> [m.particles[i] EXCEPT !.velocity = base + i]]]

\* A faulty kick: the new particle objects are built without the spread of p, so
\* that the gravity is not carried over (modelled as gravity 0).
handleForceKickNoGravity(m, deltas) ==
  LET n == Len(m.particles)
      base == Len(m.heap)
  IN [heap |-> m.heap \o
                 [i \in 1..n |-> VecAdd(m.heap[m.particles[i].velocity], deltas[i])],
      undoStack |-> m.undoStack,
      redoStack |-> m.redoStack,
      particles |-> [i \in 1..n |->
                       [m.particles[i] EXCEPT !.velocity = base + i,
                                              !.gravity = 0]]]

\* handleForceKick: prev.map(p => ({...p, velocity: p.velocity.clone().add(d)}))
\* deltas[i] is the random vector drawn for particle i.
handleForceKick(m, deltas) ==
  LET n == Len(m.particles)
      base == Len(m.heap)
  IN [heap |-> m.heap \o
                 [i \in 1..n |-> VecAdd(m.heap[m.particles[i].velocity], deltas[i])],
      undoStack |-> m.undoStack,
      redoStack |-> m.redoStack,
      particles |-> [i \in 1..n |-> [m.particles[i] EXCEPT !.velocity = base + i]]]

----------------------------------------------------------------------------
(* InstancedParticleField: the useFrame callback.  The vectors of the       *)
(* particle objects are updated in place, in index order.                   *)

\* A faulty bounce: an axis is clamped only while the particle moves outward.
BounceAxisOutwardOnly(h, p, axis) ==
  LET pos == h[p.position][axis]
      vel == h[p.velocity][axis]
  IN IF pos > BOUNDS /\ vel > 0
       THEN [h EXCEPT ![p.position][axis] = BOUNDS,
                      ![p.velocity][axis] = -MulDiv(Abs(vel), BOUNCE_PERCENT, 100)]
     ELSE IF pos < -BOUNDS /\ vel < 0
       THEN [h EXCEPT ![p.position][axis] = -BOUNDS,
                      ![p.velocity][axis] = MulDiv(Abs(vel), BOUNCE_PERCENT, 100)]
     ELSE h

\* A faulty bounce: the velocity is negated (-vel * BOUNCE_FACTOR) instead of
\* being pointed back into the volume.
BounceAxisNegate(h, p, axis) ==
  LET pos == h[p.position][axis]
      vel == h[p.velocity][axis]
  IN IF pos > BOUNDS
       THEN [h EXCEPT ![p.position][axis] = BOUNDS,
                      ![p.velocity][axis] = -MulDiv(vel, BOUNCE_PERCENT, 100)]
     ELSE IF pos < -BOUNDS
       THEN [h EXCEPT ![p.position][axis] = -BOUNDS,
                      ![p.velocity][axis] = -MulDiv(vel, BOUNCE_PERCENT, 100)]
     ELSE h

\* The boundary bounce of one axis of particle p.
BounceAxis(h, p, axis) ==
  LET pos == h[p.position][axis]
      vel == h[p.velocity][axis]
  IN IF pos > BOUNDS
       THEN [h EXCEPT ![p.position][axis] = BOUNDS,
                      ![p.velocity][axis] = -MulDiv(Abs(vel), BOUNCE_PERCENT, 100)]
     ELSE IF pos < -BOUNDS
       THEN [h EXCEPT ![p.position][axis] = -BOUNDS,
                      ![p.velocity][axis] = MulDiv(Abs(vel), BOUNCE_PERCENT, 100)]
     ELSE h

\* A faulty step: the particle is moved before gravity and drag are applied.
StepParticleMoveFirst(h, p) ==
  LET h1 == [h EXCEPT ![p.position] = VecAdd(@, h[p.velocity])]
      h2 == [h1 EXCEPT ![p.velocity][2] = @ - p.gravity]
      h3 == [h2 EXCEPT ![p.velocity] = VecScale(@, DRAG_PERMILLE, 1000)]
  IN BounceAxis(BounceAxis(BounceAxis(h3, p, 1), p, 2), p, 3)

\* One iteration of the loop body: gravity, drag, move, bounce on the three axes.
StepParticle(h, p) ==
  LET h1 == [h EXCEPT ![p.velocity][2] = @ - p.gravity]
      h2 == [h1 EXCEPT ![p.velocity] = VecScale(@, DRAG_PERMILLE, 1000)]
      h3 == [h2 EXCEPT ![p.position] = VecAdd(@, h2[p.velocity])]
  IN BounceAxis(BounceAxis(BounceAxis(h3, p, 1), p, 2), p, 3)

\* for (let i = 0; i < particles.length; i++): particles i..Len(ps) still to do.
RECURSIVE StepFrom(_, _, _)
StepFrom(h, ps, i) ==
  IF i > Len(ps) THEN h ELSE StepFrom(StepParticle(h, ps[i]), ps, i + 1)

\* A faulty pass: the particles of the batches on the undo stack are advanced too.
IntegrateHistory(m) ==
  [m EXCEPT !.heap = StepFrom(StepFrom(m.heap, m.particles, 1),
                              Flatten(m.undoStack), 1)]

\* The whole physics pass of one frame over the store.
Integrate(m) == [m EXCEPT !.heap = StepFrom(m.heap, m.particles, 1)]

----------------------------------------------------------------------------
(* Spawner (ParticleCanvas.jsx) and the settings surface                    *)

\* getGravity(env)
getGravity(env) ==
  CASE env = "earth" -> Scale \div 100
    [] env = "moon" -> Scale \div 500
    [] env = "mars" -> Scale \div 250
    [] OTHER -> 0

\* clampToBounds(pos, bounds)
clampToBounds(pos, bounds) ==
  <<Max(-bounds, Min(bounds, pos[1])), Max(-bounds, Min(bounds, pos[2])),
    Max(-bounds, Min(bounds, pos[3]))>>

\* const count = settings.mode === "burst" ? settings.count : 1
SpawnCount(s) == IF s.mode = "burst" THEN s.count ELSE 1

\* The loop of handleKeyDown: count particles around center, each with its own
\* jitter and velocity; no particle when count <= 0.
SpawnValues(s, center, jit, vel) ==
  [i \in 1..SpawnCount(s) |->
     [position |-> VecAdd(center, jit[i]), velocity |-> vel[i],
      size |-> s.size, color |-> s.color, gravity |-> getGravity(s.gravity)]]

\* Simulator's initial settings (glow and trail only select a visual effect).
DefaultSettings ==
  [count |-> 10, size |-> Scale, color |-> "#00ffff", mode |-> "single",
   gravity |-> "none"]

\* The settings objects the control panel emits in this model.
SettingsChoices ==
  { DefaultSettings,
    [count |-> 2, size |-> Scale, color |-> "#ff0000", mode |-> "burst",
     gravity |-> "earth"],
    [count |-> 0, size |-> 2 * Scale, color |-> "#00ffff", mode |-> "burst",
     gravity |-> "moon"] }

\* World points the pointer ray can hit (before clampToBounds).
RawPoints == { <<250 * Scale, 0, 0>> }

\* Values of THREE.MathUtils.randFloat(-1, 1) triples drawn in this model.
Jitters == { <<Scale \div 2, 0, 0>> }

\* Values of THREE.MathUtils.randFloat(-0.2, 0.2) triples drawn in this model.
SpawnVels == { <<0, 0, 0>>, <<-(Scale \div 5), Scale \div 10, 0>> }

\* Values of randFloatSpread(1) triples drawn in this model.
KickDeltas == { <<Scale \div 2, 0, -(Scale \div 4)>> }

\* Values of addKick() drawn in this model.
LoadVels == { <<Scale \div 10, 0, 0>> }

\* A saved configuration as the load handlers read it: isArray says whether
\* cfg.particles is an array, particles holds its entries; an entry's has names
\* the keys the JSON object defines (the other fields of the record are unused).
AllFields == {"position", "velocity", "size", "color", "gravity"}

\* The value of a property read of a key the object does not define.
Undefined == "undefined"

\* p.size, p.color, p.gravity
Field(e, f) == IF f \in e.has THEN e[f] ELSE Undefined

\* The saved configurations loaded in this model.
Configs ==
  { [isArray |-> TRUE,
     particles |->
       <<[has |-> AllFields, position |-> <<0, 10 * Scale, 0>>,
          velocity |-> <<0, Scale, 0>>, size |-> 3 * Scale, color |-> "#00ff00",
          gravity |-> Scale \div 250]>>] }

\* The two load handlers.
LoadPaths == {"server", "file"}

\* One entry of a saved configuration with the keys of has.
Entry(has, position, color) ==
  [has |-> has, position |-> position, velocity |-> <<0, Scale, 0>>,
   size |-> 3 * Scale, color |-> color, gravity |-> Scale \div 250]

\* Saved configurations, well-formed and malformed: one particle; two particles;
\* no particle; particles not an array; an entry without position; an entry
\* without velocity; an entry without color.
LoadConfigs ==
  Configs \cup
  { [isArray |-> TRUE,
     particles |-> <<Entry(AllFields, <<Scale, 0, 0>>, "#ff0000"),
                     Entry(AllFields, <<0, 0, Scale>>, "#0000ff")>>],
    [isArray |-> TRUE, particles |-> <<>>],
    [isArray |-> FALSE, particles |-> <<>>],
    [isArray |-> TRUE,
     particles |-> <<Entry(AllFields \ {"position"}, <<0, 0, 0>>, "#ff00ff")>>],
    [isArray |-> TRUE,
     particles |-> <<Entry(AllFields \ {"velocity"}, <<0, Scale, 0>>, "#ffff00")>>],
    [isArray |-> TRUE,
     particles |-> <<Entry(AllFields \ {"color"}, <<0, 0, 2 * Scale>>, "")>>] }


\* Saved configurations of one particle near or beyond a face of the volume, and
\* one of two particles; addKick() and randFloatSpread(1) values drawn for them.
PhysXs ==
  { -(205 * Scale), -(200 * Scale) - Scale \div 20, 0,
    200 * Scale - Scale \div 20, 205 * Scale }

PhysYs == { -(200 * Scale) - Scale \div 20, 0, 205 * Scale }

PhysGravities == { 0, Scale \div 100 }

PhysConfigs ==
  { [isArray |-> TRUE,
     particles |->
       <<[has |-> AllFields, position |-> <<x, y, 0>>, velocity |-> <<0, 0, 0>>,
          size |-> Scale, color |-> "#00ffff", gravity |-> g]>>] :
      x \in PhysXs, y \in PhysYs, g \in PhysGravities }
  \cup
  { [isArray |-> TRUE,
     particles |->
       <<[has |-> AllFields, position |-> <<0, 0, 0>>, velocity |-> <<0, 0, 0>>,
          size |-> Scale, color |-> "#00ffff", gravity |-> 0],
         [has |-> AllFields, position |-> <<205 * Scale, 0, 0>>,
          velocity |-> <<0, 0, 0>>, size |-> 2 * Scale, color |-> "#ff0000",
          gravity |-> Scale \div 100]>>] }

PhysLoadVels ==
  { <<vx, vy, 0>> : vx \in { -(Scale \div 5), 0, Scale \div 10 },
                    vy \in { -(Scale \div 10), Scale \div 10 } }

PhysKickDeltas ==
  { <<Scale \div 2, 0, -(Scale \div 4)>>, <<-(Scale \div 4), Scale \div 2, 0>> }

\* loadParticlesFromFile's reader.onload: the particle objects handed to the
\* callback, or ok = FALSE when the try block throws (particles is not an array,
\* or spreading a missing position or velocity raises a TypeError) and the
\* catch block alerts the user.
loadParticlesFromFile(cfg) ==
  IF ~cfg.isArray
       \/ \E i \in 1..Len(cfg.particles) :
            ~({"position", "velocity"} \subseteq cfg.particles[i].has)
    THEN [ok |-> FALSE, loaded |-> <<>>]
    ELSE [ok |-> TRUE,
          loaded |-> [i \in 1..Len(cfg.particles) |->
             LET e == cfg.particles[i]
             IN [has |-> AllFields, position |-> e.position,
                 velocity |-> e.velocity, size |-> Field(e, "size"),
                 color |-> Field(e, "color"),
                 gravity |-> IF "gravity" \in e.has THEN e.gravity ELSE 0]]]

\* A faulty reconstruction: the random vector is added to the saved position
\* as a jitter.
reconstructJitter(entries, kick) ==
  [i \in 1..Len(entries) |->
     [position |-> VecAdd(entries[i].position, kick[i]), velocity |-> kick[i],
      size |-> Field(entries[i], "size"), color |-> Field(entries[i], "color"),
      gravity |-> Field(entries[i], "gravity")]]

\* The map of handleServerLoad and handleLocalLoad: p => ({position:
\* new THREE.Vector3(...p.position), velocity: addKick(), size: p.size,
\* color: p.color, gravity: p.gravity}); every entry has a position here.
reconstruct(entries, kick) ==
  [i \in 1..Len(entries) |->
     [position |-> entries[i].position, velocity |-> kick[i],
      size |-> Field(entries[i], "size"), color |-> Field(entries[i], "color"),
      gravity |-> Field(entries[i], "gravity")]]

\* The particle values a load hands to spawnParticles, or ok = FALSE when the
\* handler ends in its error report (setMessage("Load failed.") or the alert).
\* handleServerLoad: cfg.particles.map throws when particles is not an array or
\* an entry has no position to spread.
LoadValues(path, cfg, kick) ==
  IF path = "file"
    THEN LET f == loadParticlesFromFile(cfg)
         IN IF f.ok THEN [ok |-> TRUE, vals |-> reconstruct(f.loaded, kick)]
                    ELSE [ok |-> FALSE, vals |-> <<>>]
    ELSE IF ~cfg.isArray
              \/ \E i \in 1..Len(cfg.particles) :
                   "position" \notin cfg.particles[i].has
           THEN [ok |-> FALSE, vals |-> <<>>]
           ELSE [ok |-> TRUE, vals |-> reconstruct(cfg.particles, kick)]

\* InstancedParticleField's useEffect on [particles] and the tail of useFrame:
\* mesh.count = particles.length
MeshCount(ps) == Len(ps)

\* The contents of an instance slot at or beyond mesh.count: whatever the
\* constructor or an earlier setMatrixAt left there.  The renderer draws the
\* slots below mesh.count only, so the model does not tell these contents
\* apart; Unread is no transform, and a slot that came into the drawn range
\* without being written would show as Unread.
Unread == [position |-> <<>>, scale |-> 0]

\* dummy.position.copy(p.position); dummy.scale.set(p.size, p.size, p.size);
\* dummy.updateMatrix(): the matrix composed of the position and the scale.
Transform(h, p) == [position |-> h[p.position], scale |-> p.size]

\* mesh.setMatrixAt(i - 1, matrix): instanceMatrix is a typed array of CAPACITY
\* matrices, and a write past its end is dropped.
setMatrixAt(buf, i, t) == IF i <= Len(buf) THEN [buf EXCEPT ![i] = t] ELSE buf

\* The loops of the useEffect and of useFrame: setMatrixAt(i, ..) for every
\* particle of the store, in index order.
RECURSIVE SetMatrices(_, _, _, _)
SetMatrices(buf, h, ps, i) ==
  IF i > Len(ps) THEN buf
  ELSE SetMatrices(setMatrixAt(buf, i, Transform(h, ps[i])), h, ps, i + 1)

\* mesh.count = n: the slots at and beyond n leave the drawn range.
SetCount(buf, n) == [k \in 1..Len(buf) |-> IF k <= n THEN buf[k] ELSE Unread]

\* new THREE.Color(p.color): the red, green and blue of a "#rrggbb" string whose
\* components are 00 or ff (the colors of this model); a value that is no color
\* (undefined, "") leaves the Color white.
Color(c) ==
  CASE c = "#00ffff" -> <<0, 1, 1>>
    [] c = "#ff0000" -> <<1, 0, 0>>
    [] c = "#00ff00" -> <<0, 1, 0>>
    [] c = "#0000ff" -> <<0, 0, 1>>
    [] c = "#ff00ff" -> <<1, 0, 1>>
    [] c = "#ffff00" -> <<1, 1, 0>>
    [] OTHER -> <<1, 1, 1>>

\* A faulty color buffer: the Color is built once, from the first particle.
ColorArrayFirst(ps) == [i \in 1..Len(ps) |-> Color(ps[1].color)]

\* The useEffect's colorArray: Float32Array(particles.length * 3) filled with
\* the color of every particle, installed as the instanceColor attribute.
ColorArray(ps) == [i \in 1..Len(ps) |-> Color(ps[i].color)]

----------------------------------------------------------------------------
(* The keydown listeners of Spawner and Simulator                           *)

\* window.addEventListener("keydown", handler): closure is what the handler
\* captured from the render that ran the effect.
Register(ls, closure) == Append(ls, closure)

\* A faulty cleanup: the effect returns no cleanup function.
UnregisterNothing(ls) == ls

\* The effect's cleanup, window.removeEventListener("keydown", handler): the
\* listener the effect registered (the newest) is removed.
Unregister(ls) == SubSeq(ls, 1, Len(ls) - 1)

\* The largest count a registered handleKeyDown would loop to.
RECURSIVE MaxCount(_)
MaxCount(ls) ==
  IF ls = <<>> THEN 0 ELSE Max(SpawnCount(Head(ls)), MaxCount(Tail(ls)))

\* The batches the registered handleKeyDown closures build for one key press,
\* each from the settings it captured.
SpawnedVals(ls, center, jit, vel) ==
  [k \in 1..Len(ls) |-> SpawnValues(ls[k], center, jit, vel)]

\* The event is dispatched to every registered listener in turn: each allocates
\* its particles and calls spawnParticles.
RECURSIVE DispatchSpawn(_, _)
DispatchSpawn(m, batches) ==
  IF batches = <<>> THEN m
  ELSE LET a == AllocBatch(m.heap, Head(batches))
       IN DispatchSpawn(spawnParticles([m EXCEPT !.heap = a.heap], a.batch),
                        Tail(batches))

\* The event is dispatched to each of the n registered handleForceKick listeners.
RECURSIVE DispatchKick(_, _, _)
DispatchKick(m, n, deltas) ==
  IF n = 0 THEN m ELSE DispatchKick(handleForceKick(m, deltas), n - 1, deltas)

----------------------------------------------------------------------------
(* The backend: ParticleStorageService, one JSON file per configuration     *)

\* The names of the configurations posted in this model: an ordinary name, the
\* snapshot name, the empty string and a blank.
Names == {"a", "__snapshot", "", " "}

\* The configurations posted: ParticleConfig { Name, Particles, SavedAt }, with
\* a particle list standing for its content and SavedAt left out ("default")
\* or sent by the client.
SaveConfigs ==
  [name : Names, particles : {<<"p1">>, <<"p2">>}, savedAt : {"default", "t1"}]

\* The values of DateTime.UtcNow in this model.
UtcNows == {"now"}

\* string.IsNullOrWhiteSpace(name), on the names of this model
IsNullOrWhiteSpace(name) == name \in {"", " "}

\* The SavedConfigs directory without a file.
NoFiles == [path \in {} |-> <<>>]

\* GetFilePath(name): Path.Combine(SaveDir, $"{name}.json")
GetFilePath(name) == <<name, ".json">>

\* JsonSerializer.Serialize(config): the JSON object with the properties of
\* ParticleConfig.
Serialize(config) ==
  [Name |-> config.name, Particles |-> config.particles,
   SavedAt |-> config.savedAt]

\* JsonSerializer.Deserialize<ParticleConfig>(json)
Deserialize(json) ==
  [name |-> json.Name, particles |-> json.Particles, savedAt |-> json.SavedAt]

\* File.WriteAllText(path, json): the file is created, or replaced when it exists.
WriteAllText(fs, path, json) ==
  [q \in DOMAIN fs \cup {path} |-> IF q = path THEN json ELSE fs[q]]

\* ParticleStorageService.Exists(name)
Exists(fs, name) == GetFilePath(name) \in DOMAIN fs

\* ParticleStorageService.SaveConfig(config)
StorageSaveConfig(fs, config) ==
  IF config.name = "__snapshot" THEN fs
  ELSE WriteAllText(fs, GetFilePath(config.name), Serialize(config))

\* ParticleStorageService.LoadConfig(name): found = FALSE stands for null.
LoadConfig(fs, name) ==
  IF ~Exists(fs, name) THEN [found |-> FALSE]
  ELSE [found |-> TRUE, config |-> Deserialize(fs[GetFilePath(name)])]

\* ParticleStorageService.ListConfigs()
ListConfigs(fs) ==
  { name \in { path[1] : path \in { q \in DOMAIN fs : q[2] = ".json" } } :
      ~IsNullOrWhiteSpace(name) }

\* ParticleStorageService.DeleteConfig(name)
DeleteConfig(fs, name) ==
  [q \in DOMAIN fs \ {GetFilePath(name)} |-> fs[q]]

----------------------------------------------------------------------------
(* The state machine.  Each action is one handler together with the React   *)
(* re-render it causes: the next handler runs with the closures of that     *)
(* render, so it reads the particles, undoStack and redoStack the previous  *)
(* handler left.                                                            *)

Init ==
  /\ heap = <<>>
  /\ particles = <<>>
  /\ undoStack = <<>>
  /\ redoStack = <<>>
  /\ settings = DefaultSettings
  /\ meshCount = 0
  /\ instanceMatrix = [k \in 1..CAPACITY |-> Unread]
  /\ instanceColor = <<>>
  /\ mounted = TRUE
  /\ listeners = [spawn |-> <<DefaultSettings>>, kick |-> <<"handleForceKick">>]
  /\ files = NoFiles
  /\ requests = <<>>
  /\ answers = <<>>
  /\ ticks = 0
  /\ pass = 0
  /\ lastOp = "init"
  /\ log = <<>>
  /\ preUndo = <<>>

\* A faulty event loop: a handler may run while a useFrame callback is part-way
\* through its loop (as if the loop yielded between particles).
DispatchableAnytime(i) == TRUE

\* JavaScript runs every task to completion: a handler, or the next useFrame
\* callback, is dispatched only while no useFrame callback is inside its loop.
Dispatchable(i) == i = 0

\* The state after a handler: m2 is the machine state it leaves, rendered says
\* whether the particles array was replaced (which re-runs the mesh effect) or,
\* for a frame, that useFrame has written the matrices and mesh.count; a frame
\* does not touch the instanceColor attribute.
\* The state after the re-render: c is the machine state with its garbage
\* collected.
Rendered(c, rendered, op, newLog) ==
  LET before == ViewBatch(heap, particles)
  IN /\ Dispatchable(pass)
     /\ pass' = pass
     /\ heap' = c.heap
     /\ particles' = c.particles
     /\ undoStack' = c.undoStack
     /\ redoStack' = c.redoStack
     /\ meshCount' = IF rendered THEN MeshCount(c.particles) ELSE meshCount
     /\ instanceMatrix' =
          IF rendered
            THEN SetCount(SetMatrices(instanceMatrix, c.heap, c.particles, 1),
                          MeshCount(c.particles))
            ELSE instanceMatrix
     /\ instanceColor' =
          IF rendered /\ op # "frame" THEN ColorArray(c.particles)
          ELSE instanceColor
     /\ UNCHANGED <<mounted, listeners>>
     /\ UNCHANGED backendVars
     /\ lastOp' = op
     /\ log' = newLog
     /\ preUndo' = IF op = "undo" /\ Len(undoStack) # 0 THEN <<before>>
                   ELSE IF op = "redo" /\ lastOp = "undo" THEN preUndo
                   ELSE <<>>

Commit(m2, rendered, op, newLog) == Rendered(Collect(m2), rendered, op, newLog)

\* ControlPanel's effect: onSettingsChange({count, size, color, mode, ...}),
\* with the re-render it causes: Spawner's effect has settings among its
\* dependencies, so its cleanup removes the listener and the effect registers
\* the handleKeyDown of the new render.
SettingsChange(s) ==
  /\ Dispatchable(pass)
  /\ mounted
  /\ s # settings
  /\ settings' = s
  /\ listeners' = [listeners EXCEPT !.spawn = Register(Unregister(@), s)]
  /\ lastOp' = "settings"
  /\ preUndo' = <<>>
  /\ UNCHANGED <<heap, particles, undoStack, redoStack, meshCount,
                 instanceMatrix, instanceColor, mounted, ticks, pass, log>>
  /\ UNCHANGED backendVars

\* A keydown event for the key "e": Spawner.handleKeyDown of every registered
\* listener (none after the unmount).
SpawnKey(point, jit, vel) ==
  LET batches == SpawnedVals(listeners.spawn, clampToBounds(point, BOUNDS),
                             jit, vel)
  IN /\ Len(particles) + Len(Flatten(batches)) <= MaxStore
     /\ Len(undoStack) + Len(batches) <= MaxBatches
     /\ Commit(DispatchSpawn(Machine, batches), batches # <<>>, "spawn",
               IF batches = <<>> THEN log
               ELSE SubSeq(log, 1, Len(undoStack)) \o batches)
     /\ UNCHANGED <<settings, ticks>>

\* The load was accepted: spawnParticles(reconstructed)
LoadSpawn(vals) ==
  LET a == AllocBatch(heap, vals)
  IN Commit(spawnParticles([Machine EXCEPT !.heap = a.heap], a.batch), TRUE,
            "load", Append(SubSeq(log, 1, Len(undoStack)), vals))

\* The load ended in the catch block: the user is told, nothing is spawned.
LoadFail ==
  /\ Dispatchable(pass)
  /\ lastOp' = "loadFailed"
  /\ preUndo' = <<>>
  /\ UNCHANGED <<heap, particles, undoStack, redoStack, meshCount,
                 instanceMatrix, instanceColor, mounted, listeners, pass, log>>
  /\ UNCHANGED backendVars

\* ConfigPanel.handleServerLoad (path "server") and handleLocalLoad (path "file")
Load(path, cfg, kick) ==
  /\ mounted
  /\ Len(particles) + Len(cfg.particles) <= MaxStore
  /\ Len(undoStack) < MaxBatches
  /\ IF LoadValues(path, cfg, kick).ok
       THEN LoadSpawn(LoadValues(path, cfg, kick).vals)
       ELSE LoadFail
  /\ UNCHANGED <<settings, ticks>>

\* The Undo button's handler
Undo ==
  /\ mounted
  /\ Commit(undo(Machine), Len(undoStack) # 0, "undo", log)
  /\ UNCHANGED <<settings, ticks>>

\* The Redo button's handler
Redo ==
  /\ mounted
  /\ Commit(redo(Machine), Len(redoStack) # 0, "redo", log)
  /\ UNCHANGED <<settings, ticks>>

\* The Clear All handler
ClearAll ==
  /\ mounted
  /\ Commit(clearAll(Machine), Len(particles) # 0, "clear",
            IF Len(particles) # 0 THEN <<>> ELSE log)
  /\ UNCHANGED <<settings, ticks>>

\* A keydown event for the key "f": Simulator's handleForceKick of every
\* registered listener (none after the unmount).
ForceKick(deltas) ==
  /\ ticks < MaxTicks
  /\ ticks' = ticks + 1
  /\ Commit(DispatchKick(Machine, Len(listeners.kick), deltas),
            listeners.kick # <<>>, "kick", log)
  /\ UNCHANGED settings

\* One animation frame: the useFrame callback of InstancedParticleField
Frame ==
  /\ mounted
  /\ ticks < MaxTicks
  /\ ticks' = ticks + 1
  /\ Commit(Integrate(Machine), TRUE, "frame", log)
  /\ UNCHANGED settings

Next ==
  \/ \E point \in RawPoints :
       \E jit \in [1..MaxCount(listeners.spawn) -> Jitters] :
         \E vel \in [1..MaxCount(listeners.spawn) -> SpawnVels] :
           SpawnKey(point, jit, vel)
  \/ \E path \in LoadPaths : \E cfg \in Configs :
       \E kick \in [1..Len(cfg.particles) -> LoadVels] : Load(path, cfg, kick)
  \/ Undo
  \/ Redo
  \/ ClearAll
  \/ \E deltas \in [1..Len(particles) -> KickDeltas] : ForceKick(deltas)
  \/ Frame
  \/ \E s \in SettingsChoices : SettingsChange(s)

Spec == Init /\ [][Next]_vars

----------------------------------------------------------------------------
(* The integrator and the kick on one loaded configuration: a configuration *)
(* is loaded into the empty store, then frames and force-kicks run.         *)

PhysLoad(cfg, kick) ==
  /\ particles = <<>>
  /\ undoStack = <<>>
  /\ Load("server", cfg, kick)

PhysNext ==
  \/ \E cfg \in PhysConfigs :
       \E kick \in [1..Len(cfg.particles) -> PhysLoadVels] : PhysLoad(cfg, kick)
  \/ \E deltas \in [1..Len(particles) -> PhysKickDeltas] : ForceKick(deltas)
  \/ Frame

PhysSpec == Init /\ [][PhysNext]_vars

----------------------------------------------------------------------------
(* The load handlers on well-formed and malformed configurations, with the  *)
(* history buttons.                                                         *)

LoadNext ==
  \/ \E path \in LoadPaths : \E cfg \in LoadConfigs :
       \E kick \in [1..Len(cfg.particles) -> LoadVels] : Load(path, cfg, kick)
  \/ Undo
  \/ Redo
  \/ ClearAll

LoadSpec == Init /\ [][LoadNext]_vars

----------------------------------------------------------------------------
(* The useFrame callback unfolded: one step per iteration of its for loop.  *)
(* Spec runs the callback as the single step Frame; here a pass is begun,   *)
(* advances one particle per step and ends with mesh.count, and the         *)
(* handlers are the other tasks of the event loop.                          *)

\* The callback is entered: let i = 0
PassBegin ==
  /\ Dispatchable(pass)
  /\ mounted
  /\ pass = 0
  /\ ticks < MaxTicks
  /\ pass' = 1
  /\ lastOp' = "frame"
  /\ preUndo' = <<>>
  /\ UNCHANGED <<heap, particles, undoStack, redoStack, settings, meshCount,
                 instanceMatrix, instanceColor, mounted, listeners, ticks, log>>
  /\ UNCHANGED backendVars

\* One iteration of the loop: i < particles.length, the body on particles[i], i++
PassStep ==
  /\ pass >= 1
  /\ pass <= Len(particles)
  /\ heap' = StepParticle(heap, particles[pass])
  /\ instanceMatrix' =
       setMatrixAt(instanceMatrix, pass, Transform(heap', particles[pass]))
  /\ pass' = pass + 1
  /\ UNCHANGED <<particles, undoStack, redoStack, settings, meshCount,
                 instanceColor, mounted, listeners, ticks, lastOp, log, preUndo>>
  /\ UNCHANGED backendVars

\* The loop is left: mesh.count = particles.length
PassEnd ==
  /\ pass >= 1
  /\ pass > Len(particles)
  /\ meshCount' = MeshCount(particles)
  /\ instanceMatrix' = SetCount(instanceMatrix, MeshCount(particles))
  /\ ticks' = ticks + 1
  /\ pass' = 0
  /\ UNCHANGED <<heap, particles, undoStack, redoStack, settings,
                 instanceColor, mounted, listeners, lastOp, log,
                 preUndo>>
  /\ UNCHANGED backendVars

PassNext ==
  \/ \E point \in RawPoints :
       \E jit \in [1..MaxCount(listeners.spawn) -> Jitters] :
         \E vel \in [1..MaxCount(listeners.spawn) -> SpawnVels] :
           SpawnKey(point, jit, vel)
  \/ \E path \in LoadPaths : \E cfg \in Configs :
       \E kick \in [1..Len(cfg.particles) -> LoadVels] : Load(path, cfg, kick)
  \/ Undo
  \/ Redo
  \/ ClearAll
  \/ \E deltas \in [1..Len(particles) -> KickDeltas] : ForceKick(deltas)
  \/ PassBegin
  \/ PassStep
  \/ PassEnd

PassSpec == Init /\ [][PassNext]_vars

----------------------------------------------------------------------------
(* Properties *)

\* The values of the particles in the store and on the two stacks.
Store == ViewBatch(heap, particles)
UndoV == ViewStack(heap, undoStack)
RedoV == ViewStack(heap, redoStack)

RECURSIVE SumLen(_)
SumLen(s) == IF s = <<>> THEN 0 ELSE Len(Head(s)) + SumLen(Tail(s))

RECURSIVE Concat(_)
Concat(s) == IF s = <<>> THEN <<>> ELSE Head(s) \o Concat(Tail(s))

Reverse(s) == [i \in 1..Len(s) |-> s[Len(s) + 1 - i]]

Last(s) == s[Len(s)]

\* The fields of a particle value that no frame and no kick changes.
Ident(p) == [color |-> p.color, size |-> p.size, gravity |-> p.gravity]

Idents(b) == [i \in 1..Len(b) |-> Ident(b[i])]

C2_UndoRedoRestoresValuesBeforeUndo ==
  (lastOp = "redo" /\ preUndo # <<>>) => Store = preUndo[1]

\* C2 amended: after an undo that popped a batch and a redo right after it, the
\* store has the length and order it had before the undo, every particle has the
\* color, size and gravity it had, the particles below the restored batch have the
\* position and velocity they had, and the particles of the restored batch have
\* their spawn-time position and velocity.
C2_UndoRedoRestoresSpawnValues ==
  (lastOp = "redo" /\ preUndo # <<>>) =>
    LET was == preUndo[1]
        batch == log[Len(undoStack)]
        keep == Len(was) - Len(batch)
    IN /\ Len(Store) = Len(was)
       /\ Idents(Store) = Idents(was)
       /\ SubSeq(Store, 1, keep) = SubSeq(was, 1, keep)
       /\ SubSeq(Store, keep + 1, Len(Store)) = batch

\* C2 witness: the undo and redo have run on a batch that a frame or a kick had
\* changed in the store, above a batch that stays.
C2_Witness ==
  /\ lastOp = "redo"
  /\ preUndo # <<>>
  /\ Len(undoStack) = 2
  /\ Len(Last(undoStack)) >= 1
  /\ Len(undoStack[1]) >= 1
  /\ Last(Store) # Last(preUndo[1])

\* C3: after clearAll the store, the undo stack and the redo stack are empty,
\* whatever the state before the call.
C3_ClearEmptiesStoreAndStacks ==
  lastOp = "clear" => (particles = <<>> /\ undoStack = <<>> /\ redoStack = <<>>)

\* C4: the store length and the render active-count never exceed the capacity
\* of the instance buffer (a spawn or load that would exceed it is rejected).
C4_StoreWithinCapacity == Len(particles) <= CAPACITY /\ meshCount <= CAPACITY

\* C5: a spawn whose resolved count is <= 0 leaves the store, the undo stack and
\* the redo stack unchanged.
C5_SpawnOfNoParticlesIsNoOp ==
  [][(lastOp' = "spawn" /\ SpawnCount(settings) <= 0) =>
       (Store' = Store /\ UndoV' = UndoV /\ RedoV' = RedoV)]_vars


\* C6: a spawn of N >= 1 particles appends exactly N particles at the tail of the
\* store (the earlier ones untouched), pushes exactly one batch of length N on top
\* of the undo stack (the earlier batches untouched) and leaves the redo stack empty.
C6_SpawnAppendsOneBatch ==
  [][(lastOp' = "spawn" /\ SpawnCount(settings) >= 1) =>
       LET N == SpawnCount(settings)
       IN /\ Len(Store') = Len(Store) + N
          /\ SubSeq(Store', 1, Len(Store)) = Store
          /\ SubSeq(Store', Len(Store) + 1, Len(Store')) = Last(log')
          /\ Len(UndoV') = Len(UndoV) + 1
          /\ SubSeq(UndoV', 1, Len(UndoV)) = UndoV
          /\ Len(Last(UndoV')) = N
          /\ RedoV' = <<>>]_vars

\* C6 witness: a burst of two particles has been spawned on top of an earlier batch.
C6_Witness ==
  /\ lastOp = "spawn"
  /\ Len(undoStack) = 2
  /\ Len(undoStack[1]) >= 1
  /\ Len(undoStack[2]) = 2
  /\ Len(particles) = Len(undoStack[1]) + 2

\* C7: no frame and no force-kick changes a particle of a batch on the undo or the
\* redo stack; the batches on the stacks hold the spawn-time values of their
\* particles, and a redo puts those spawn-time values back into the store.
C7_StacksKeepSpawnValues ==
  /\ [](UndoV \o Reverse(RedoV) = log)
  /\ [][/\ (lastOp' \in {"frame", "kick"}) => (UndoV' = UndoV /\ RedoV' = RedoV)
        /\ (lastOp' = "redo" /\ Len(redoStack) # 0) =>
             SubSeq(Store', Len(Store) + 1, Len(Store')) = log[Len(undoStack) + 1]
       ]_vars

\* C7 witness: a frame or kick has changed the particles in the store while one
\* batch is on the undo stack and another on the redo stack.
C7_Witness ==
  /\ lastOp \in {"frame", "kick"}
  /\ Len(undoStack) = 1
  /\ Len(redoStack) = 1
  /\ Len(undoStack[1]) >= 1
  /\ Len(redoStack[1]) >= 1
  /\ Store # UndoV[1]

\* C8: undo and redo are LIFO over whole batches.  With B1..Bn the spawn-time
\* batches of the timeline (log): an undo that pops removes exactly the particles
\* of the top batch from the tail of the store and moves the batch to the redo
\* stack; a redo that pops appends the batch undone last, with its spawn-time
\* values, and moves it back; so the undo stack followed by the reversed redo
\* stack is always B1..Bn.
C8_UndoRedoAreLIFO ==
  [][/\ (lastOp' = "undo" /\ Len(undoStack) # 0) =>
          LET k == Len(undoStack)
          IN /\ Store' = SubSeq(Store, 1, Len(Store) - Len(log[k]))
             /\ UndoV' = SubSeq(log, 1, k - 1)
             /\ RedoV' = Reverse(SubSeq(log, k, Len(log)))
     /\ (lastOp' = "redo" /\ Len(redoStack) # 0) =>
          LET k == Len(undoStack) + 1
          IN /\ Store' = Store \o log[k]
             /\ UndoV' = SubSeq(log, 1, k)
             /\ RedoV' = Reverse(SubSeq(log, k + 1, Len(log)))
    ]_vars

\* C8 witness: of two different batches both undone, the first one spawned has been
\* redone and the second one is still on the redo stack.
C8_Witness ==
  /\ lastOp = "redo"
  /\ Len(undoStack) = 1
  /\ Len(redoStack) = 1
  /\ Len(log) = 2
  /\ Len(log[1]) >= 1
  /\ Len(log[2]) >= 1
  /\ log[1] # log[2]
  /\ Store = log[1]

\* C9: undo with an empty undo stack and redo with an empty redo stack change
\* neither the store nor the stacks.
C9_EmptyUndoRedoAreNoOps ==
  [][/\ (lastOp' = "undo" /\ Len(undoStack) = 0) =>
          (Store' = Store /\ UndoV' = UndoV /\ RedoV' = RedoV)
     /\ (lastOp' = "redo" /\ Len(redoStack) = 0) =>
          (Store' = Store /\ UndoV' = UndoV /\ RedoV' = RedoV)
    ]_vars

\* C9 witness: an undo has run on an empty undo stack (it recorded no store
\* values, as an undo that pops does) while the redo stack holds two batches.
C9_Witness ==
  /\ lastOp = "undo"
  /\ Len(undoStack) = 0
  /\ Len(redoStack) = Len(log)
  /\ Len(redoStack) = 2
  /\ preUndo = <<>>

----------------------------------------------------------------------------
(* The integration step, on particle values *)

\* The velocity of particle value p after gravity and drag, before any bounce.
PreBounceVel(p) ==
  VecScale(<<p.velocity[1], p.velocity[2] - p.gravity, p.velocity[3]>>,
           DRAG_PERMILLE, 1000)

\* The position of particle value p after the move, before any clamp.
PreClampPos(p) == VecAdd(p.position, PreBounceVel(p))

\* The step clamps particle value p on this axis.
ClampsHigh(p, axis) == PreClampPos(p)[axis] > BOUNDS
ClampsLow(p, axis) == PreClampPos(p)[axis] < -BOUNDS

\* C11: after one integration step every particle of the store has, on every
\* axis, -BOUNDS <= position[axis] <= BOUNDS, whatever its position and velocity
\* before the step.
C11_PositionsWithinBoundsAfterStep ==
  lastOp = "frame" =>
    \A i \in 1..Len(Store) : \A axis \in 1..3 :
      -BOUNDS <= Store[i].position[axis] /\ Store[i].position[axis] <= BOUNDS

\* C11 witness: a particle loaded 5 units beyond the upper x face with a velocity
\* pointing inward has been stepped once and sits on the face.
C11_Witness ==
  /\ lastOp = "frame"
  /\ ticks = 1
  /\ Len(Store) = 1
  /\ log[1][1].position[1] = 205 * Scale
  /\ log[1][1].velocity[1] < 0
  /\ Store[1].position[1] = BOUNDS

\* C12 as stated: whenever a step clamps a particle on an axis, the resulting
\* velocity on that axis has magnitude at most BOUNCE_FACTOR times the magnitude
\* before the clamp and the opposite sign to the velocity before the clamp.
C12_BounceReversesSign ==
  [][lastOp' = "frame" =>
       \A i \in 1..Len(Store) : \A axis \in 1..3 :
         (ClampsHigh(Store[i], axis) \/ ClampsLow(Store[i], axis)) =>
           LET pv == PreBounceVel(Store[i])[axis]
               nv == Store'[i].velocity[axis]
           IN /\ 100 * Abs(nv) <= BOUNCE_PERCENT * Abs(pv)
              /\ (pv > 0 => nv <= 0)
              /\ (pv < 0 => nv >= 0)]_vars

\* C12 amended: whenever a step clamps a particle on an axis, the resulting
\* velocity on that axis has magnitude at most BOUNCE_FACTOR times the magnitude
\* before the clamp and points back into the volume: it is <= 0 after a clamp to
\* +BOUNDS and >= 0 after a clamp to -BOUNDS (so it has the opposite sign when the
\* particle was moving outward, and keeps its sign when the particle was outside
\* and already moving inward).
C12_BouncePointsInward ==
  [][lastOp' = "frame" =>
       \A i \in 1..Len(Store) : \A axis \in 1..3 :
         LET pv == PreBounceVel(Store[i])[axis]
             nv == Store'[i].velocity[axis]
         IN /\ ClampsHigh(Store[i], axis) =>
                 (100 * Abs(nv) <= BOUNCE_PERCENT * Abs(pv) /\ nv <= 0)
            /\ ClampsLow(Store[i], axis) =>
                 (100 * Abs(nv) <= BOUNCE_PERCENT * Abs(pv) /\ nv >= 0)]_vars

\* C12 witness: a particle loaded 5 units beyond the lower x face and moving
\* inward has been stepped once, is clamped to the face and still moves inward.
C12_Witness ==
  /\ lastOp = "frame"
  /\ ticks = 1
  /\ Len(Store) = 1
  /\ log[1][1].position[1] = -(205 * Scale)
  /\ log[1][1].velocity[1] > 0
  /\ Store[1].position[1] = -BOUNDS
  /\ Store[1].velocity[1] > 0

\* C13: one integration step applies gravity, then drag, then the move: on every
\* axis the step does not clamp, the velocity after the step is
\* (v - (0, gravity, 0)) * DRAG and the position is the old position plus that
\* velocity; on a clamped axis the velocity is that velocity's magnitude times
\* BOUNCE_FACTOR.  The store keeps its length and every particle its color, size
\* and gravity.
C13_StepIsGravityDragMove ==
  [][lastOp' = "frame" =>
       /\ Len(Store') = Len(Store)
       /\ Idents(Store') = Idents(Store)
       /\ \A i \in 1..Len(Store) : \A axis \in 1..3 :
            IF ClampsHigh(Store[i], axis) \/ ClampsLow(Store[i], axis)
              THEN Abs(Store'[i].velocity[axis]) =
                     MulDiv(Abs(PreBounceVel(Store[i])[axis]), BOUNCE_PERCENT, 100)
              ELSE /\ Store'[i].velocity[axis] = PreBounceVel(Store[i])[axis]
                   /\ Store'[i].position[axis] =
                        Store[i].position[axis] + Store'[i].velocity[axis]]_vars

\* C13 witness: a particle with gravity 0.01 loaded at height 0 with upward
\* velocity 0.1 has been stepped once: its height is (0.1 - 0.01) * 0.995.
C13_Witness ==
  /\ lastOp = "frame"
  /\ ticks = 1
  /\ Len(Store) = 1
  /\ log[1][1].gravity = Scale \div 100
  /\ log[1][1].position[2] = 0
  /\ log[1][1].velocity[2] = Scale \div 10
  /\ Store[1].position[2] =
       MulDiv(Scale \div 10 - Scale \div 100, DRAG_PERMILLE, 1000)

\* C14: a force-kick adds to the velocity of every particle of the store its own
\* delta, each component of it within [-0.5, 0.5], and leaves every particle's
\* position, color, size and gravity and the store's length and order unchanged.
C14_KickChangesOnlyVelocities ==
  [][lastOp' = "kick" =>
       /\ Len(Store') = Len(Store)
       /\ \A i \in 1..Len(Store) :
            /\ Store'[i].position = Store[i].position
            /\ Ident(Store'[i]) = Ident(Store[i])
            /\ \A axis \in 1..3 :
                 Abs(Store'[i].velocity[axis] - Store[i].velocity[axis])
                   <= Scale \div 2]_vars

\* C14 witness: two loaded particles have been kicked, the first by +0.5 on x and
\* the second by another delta.
C14_Witness ==
  /\ lastOp = "kick"
  /\ ticks = 1
  /\ Len(Store) = 2
  /\ Store[1].velocity[1] - log[1][1].velocity[1] = Scale \div 2
  /\ Store[2].velocity[1] - log[1][2].velocity[1] # Scale \div 2
  /\ Store[2].velocity[2] - log[1][2].velocity[2] = Scale \div 2

\* C15: a force-kick leaves the undo stack and the redo stack unchanged, and an
\* undo or a redo leaves every particle that stays in the store as it was, the
\* velocity a kick gave it included.
C15_KickIsOutsideHistory ==
  [][/\ (lastOp' = "kick") =>
          (undoStack' = undoStack /\ redoStack' = redoStack
           /\ UndoV' = UndoV /\ RedoV' = RedoV)
     /\ (lastOp' \in {"undo", "redo"}) =>
          \A i \in 1..Min(Len(Store), Len(Store')) : Store'[i] = Store[i]
    ]_vars

\* C15 witness: of two batches in the store the upper one has been undone after a
\* kick; the particle that stays has its position of spawn time and the kicked
\* velocity.
C15_Witness ==
  /\ lastOp = "undo"
  /\ Len(undoStack) = 1
  /\ Len(redoStack) = 1
  /\ Len(Last(redoStack)) >= 1
  /\ Len(Store) >= 1
  /\ Store[1].position = log[1][1].position
  /\ Store[1].velocity = VecAdd(log[1][1].velocity, <<Scale \div 2, 0, -(Scale \div 4)>>)

----------------------------------------------------------------------------
(* Loads *)

\* A configuration is malformed: its particle list is not an array, or an entry
\* lacks position, velocity, size, color or gravity.
Malformed(cfg) ==
  ~cfg.isArray \/ \E i \in 1..Len(cfg.particles) : cfg.particles[i].has # AllFields

\* The last n particle values of the store.
TailOf(b, n) == SubSeq(b, Len(b) - n + 1, Len(b))

C17_MalformedLoadIsRejected ==
  [][\A path \in LoadPaths : \A cfg \in LoadConfigs :
       \A kick \in [1..Len(cfg.particles) -> LoadVels] :
         (Malformed(cfg) /\ Load(path, cfg, kick)) =>
           /\ lastOp' = "loadFailed"
           /\ particles' = particles
           /\ undoStack' = undoStack
           /\ redoStack' = redoStack]_vars

----------------------------------------------------------------------------
(* The redo stack *)

\* The vectors the batches of the redo stack refer to.
RedoRefs == RefsOfStack(redoStack)

\* C19: the redo stack grows only by an undo that pops (by exactly the popped
\* batch), shrinks only by a redo (by its top batch) or by a spawn, a load or a
\* clear (to empty), and is otherwise unchanged, in particular by frames and
\* force-kicks; it holds each undone batch of the timeline once: it is the
\* undone batches in reverse order, and no two of its particles share a vector.
C19_RedoStackLifecycle ==
  /\ [](/\ RedoV = Reverse(SubSeq(log, Len(undoStack) + 1, Len(log)))
        /\ \A i, j \in 1..Len(RedoRefs) : RedoRefs[i] = RedoRefs[j] => i = j)
  /\ [][/\ (lastOp' = "undo" /\ Len(undoStack) # 0) =>
             RedoV' = Append(RedoV, Last(UndoV))
        /\ Len(redoStack') > Len(redoStack) =>
             (lastOp' = "undo" /\ Len(undoStack) # 0)
        /\ Len(redoStack') < Len(redoStack) =>
             \/ lastOp' = "redo" /\ RedoV' = SubSeq(RedoV, 1, Len(RedoV) - 1)
             \/ lastOp' \in {"spawn", "load", "clear"} /\ RedoV' = <<>>
        /\ Len(redoStack') = Len(redoStack) => RedoV' = RedoV
        /\ lastOp' \in {"frame", "kick"} => redoStack' = redoStack
       ]_vars

\* C19 witness: two different batches have been undone one after the other and
\* both are on the redo stack, the one undone last on top.
C19_Witness ==
  /\ lastOp = "undo"
  /\ Len(undoStack) = 0
  /\ Len(redoStack) = 2
  /\ Len(redoStack[1]) >= 1
  /\ Len(redoStack[2]) >= 1
  /\ RedoV[1] # RedoV[2]
  /\ RedoV[2] = log[1]

----------------------------------------------------------------------------
(* Passes of the integrator *)

\* One axis of particle value p after the whole step, as <<position, velocity>>.
StepAxis(p, axis) ==
  IF ClampsHigh(p, axis)
    THEN <<BOUNDS, -MulDiv(Abs(PreBounceVel(p)[axis]), BOUNCE_PERCENT, 100)>>
  ELSE IF ClampsLow(p, axis)
    THEN <<-BOUNDS, MulDiv(Abs(PreBounceVel(p)[axis]), BOUNCE_PERCENT, 100)>>
  ELSE <<PreClampPos(p)[axis], PreBounceVel(p)[axis]>>

\* Particle value p after the whole step.
StepValue(p) ==
  [p EXCEPT !.position = [axis \in 1..3 |-> StepAxis(p, axis)[1]],
            !.velocity = [axis \in 1..3 |-> StepAxis(p, axis)[2]]]

\* C20: no spawn, load, undo, redo, clear or force-kick takes effect while an
\* integration pass is in progress; a pass runs over one fixed store and advances
\* its particles one by one in index order, each exactly once: the step at index
\* i advances particle i and leaves every other particle of the store and both
\* stacks as they are, and the pass ends after the last particle.
C20_PassRunsOverFixedStore ==
  /\ [](pass >= 0 /\ pass <= Len(particles) + 1)
  /\ [][/\ (lastOp' # "frame") => (pass = 0 /\ pass' = 0)
        /\ (pass = 0) => (pass' = 0 \/ (pass' = 1 /\ Store' = Store))
        /\ (pass >= 1) =>
             /\ particles' = particles
             /\ undoStack' = undoStack /\ UndoV' = UndoV
             /\ redoStack' = redoStack /\ RedoV' = RedoV
             /\ IF pass <= Len(particles)
                  THEN /\ pass' = pass + 1
                       /\ Store' = [Store EXCEPT ![pass] = StepValue(Store[pass])]
                  ELSE /\ pass' = 0
                       /\ Store' = Store
       ]_vars

\* C20 witness: a pass over a store of two batches is in progress; the first
\* particle has been advanced, the second still has its spawn-time values.
C20_Witness ==
  /\ pass = 2
  /\ ticks = 0
  /\ lastOp = "frame"
  /\ Len(undoStack) = 2
  /\ Len(Store) = 2
  /\ Store[1] = StepValue(log[1][1])
  /\ Store[1] # log[1][1]
  /\ Store[2] = log[2][1]

----------------------------------------------------------------------------
(* The instance buffer *)

\* The transform of particle value p.
TransformOf(p) == [position |-> p.position, scale |-> p.size]

\* C21: after every frame's render synchronization the active count equals the
\* store length and, for every index below it, the instance buffer has a slot of
\* that index and the slot holds the transform built from the particle's current
\* position and size.
C21_BufferMatchesStoreAfterFrame ==
  lastOp = "frame" =>
    /\ meshCount = Len(Store)
    /\ \A i \in 1..meshCount :
         /\ i <= Len(instanceMatrix)
         /\ instanceMatrix[i] = TransformOf(Store[i])

----------------------------------------------------------------------------
(* Mounting and unmounting the Simulator page.  The keydown events reach    *)
(* the window whether or not the page is mounted.                           *)

\* The page is left: the cleanups of Spawner's effect and of Simulator's kick
\* effect run.  The component state is discarded; the variables keep the values
\* of the last render, which no listener can reach any more.
Unmount ==
  /\ Dispatchable(pass)
  /\ mounted
  /\ mounted' = FALSE
  /\ listeners' = [spawn |-> Unregister(listeners.spawn),
                   kick |-> Unregister(listeners.kick)]
  /\ lastOp' = "unmount"
  /\ preUndo' = <<>>
  /\ UNCHANGED <<heap, particles, undoStack, redoStack, settings, meshCount,
                 instanceMatrix, instanceColor, ticks, pass, log>>
  /\ UNCHANGED backendVars

\* The page is entered again: the useState initial values, a new mesh, and the
\* two effects register their listeners.
Mount ==
  /\ ~mounted
  /\ mounted' = TRUE
  /\ heap' = <<>>
  /\ particles' = <<>>
  /\ undoStack' = <<>>
  /\ redoStack' = <<>>
  /\ settings' = DefaultSettings
  /\ meshCount' = 0
  /\ instanceMatrix' = [k \in 1..CAPACITY |-> Unread]
  /\ instanceColor' = <<>>
  /\ listeners' = [spawn |-> Register(listeners.spawn, DefaultSettings),
                   kick |-> Register(listeners.kick, "handleForceKick")]
  /\ lastOp' = "mount"
  /\ log' = <<>>
  /\ preUndo' = <<>>
  /\ UNCHANGED <<ticks, pass>>
  /\ UNCHANGED backendVars

MountNext ==
  \/ \E point \in RawPoints :
       \E jit \in [1..MaxCount(listeners.spawn) -> Jitters] :
         \E vel \in [1..MaxCount(listeners.spawn) -> SpawnVels] :
           SpawnKey(point, jit, vel)
  \/ \E deltas \in [1..Len(particles) -> KickDeltas] : ForceKick(deltas)
  \/ \E s \in SettingsChoices : SettingsChange(s)
  \/ Undo
  \/ Unmount
  \/ Mount

MountSpec == Init /\ [][MountNext]_vars

\* C22: while the page is mounted exactly one spawn-key listener and one kick-key
\* listener are registered, and none after the unmount; so one press of the spawn
\* key on the mounted page is exactly one spawnParticles call (one batch pushed,
\* its particles appended), one press of the kick key is exactly one kick (every
\* velocity gets its random vector added once), and a key press after the unmount
\* changes neither the store nor the stacks.
C22_OneListenerPerKey ==
  /\ [](/\ Len(listeners.spawn) = (IF mounted THEN 1 ELSE 0)
        /\ Len(listeners.kick) = (IF mounted THEN 1 ELSE 0))
  /\ [][/\ (mounted /\ lastOp' = "spawn") =>
             /\ Len(UndoV') = Len(UndoV) + 1
             /\ Store' = Store \o Last(UndoV')
        /\ \A deltas \in [1..Len(particles) -> KickDeltas] :
             (mounted /\ ForceKick(deltas)) =>
               /\ Len(Store') = Len(Store)
               /\ \A i \in 1..Len(Store) :
                    Store'[i].velocity = VecAdd(Store[i].velocity, deltas[i])
        /\ (~mounted /\ lastOp' \in {"spawn", "kick"}) =>
             (Store' = Store /\ UndoV' = UndoV /\ RedoV' = RedoV)
       ]_vars

\* C22 witness: the spawn key has been pressed after the unmount of a page whose
\* store held particles, and after at least one settings change had re-run
\* Spawner's effect.
C22_Witness ==
  /\ ~mounted
  /\ lastOp = "spawn"
  /\ Len(particles) >= 1
  /\ settings # DefaultSettings

----------------------------------------------------------------------------
(* The save endpoint.  The server runs its requests concurrently on one     *)
(* ParticleStorageService (a singleton): a save request is two steps on the *)
(* directory, the Exists check and the write, and other requests may run    *)
(* between them.                                                            *)

frontVars ==
  <<heap, particles, undoStack, redoStack, settings, meshCount, instanceMatrix,
    instanceColor, mounted, listeners, ticks, pass, lastOp, log, preUndo>>

\* ParticleConfigController.SaveConfig up to the Exists check: BadRequest for a
\* blank name, SavedAt stamped when left out, Conflict when the file exists;
\* otherwise the request goes on to the write.
SaveReceive(config, now) ==
  /\ Len(requests) + Len(answers) < MaxSaves
  /\ IF IsNullOrWhiteSpace(config.name)
       THEN /\ answers' = Append(answers, [config |-> config,
                                           result |-> "validationError"])
            /\ UNCHANGED requests
       ELSE LET stamped == IF config.savedAt = "default"
                             THEN [config EXCEPT !.savedAt = now] ELSE config
            IN IF Exists(files, stamped.name)
                 THEN /\ answers' = Append(answers, [config |-> stamped,
                                                     result |-> "conflict"])
                      /\ UNCHANGED requests
                 ELSE /\ requests' = Append(requests, stamped)
                      /\ UNCHANGED answers
  /\ UNCHANGED files
  /\ UNCHANGED frontVars

\* ParticleConfigController.SaveConfig from the write on:
\* _storage.SaveConfig(config); return Ok(..)
SaveStore(i) ==
  /\ i \in 1..Len(requests)
  /\ files' = StorageSaveConfig(files, requests[i])
  /\ answers' = Append(answers, [config |-> requests[i], result |-> "ok"])
  /\ requests' = SubSeq(requests, 1, i - 1) \o SubSeq(requests, i + 1, Len(requests))
  /\ UNCHANGED frontVars

\* ParticleConfigController.Delete of a name that exists; the answers to the
\* saves of that name are history from then on.
Delete(name) ==
  /\ Exists(files, name)
  /\ files' = DeleteConfig(files, name)
  /\ answers' = SelectSeq(answers, LAMBDA a : a.config.name # name)
  /\ UNCHANGED requests
  /\ UNCHANGED frontVars

StoreNext ==
  \/ \E config \in SaveConfigs : \E now \in UtcNows : SaveReceive(config, now)
  \/ \E i \in 1..Len(requests) : SaveStore(i)
  \/ \E name \in Names : Delete(name)

StoreSpec == Init /\ [][StoreNext]_vars

\* The save requests of this name answered ok since the name was last deleted.
OkAnswers(name) ==
  { i \in 1..Len(answers) :
      answers[i].result = "ok" /\ answers[i].config.name = name }

\* C23: the save never overwrites.  No step replaces the content of a file that
\* exists; a save with an empty or blank name is answered with a validation
\* error and no file of such a name is stored; a save of a name that exists is
\* answered conflict; and of the save requests with one name, however they
\* interleave, at most one is answered ok (until the name is deleted).
C23_SaveNeverOverwrites ==
  /\ [](/\ \A name \in Names : Cardinality(OkAnswers(name)) <= 1
        /\ \A i \in 1..Len(answers) :
             IsNullOrWhiteSpace(answers[i].config.name) =>
               answers[i].result = "validationError"
        /\ \A name \in Names : IsNullOrWhiteSpace(name) => ~Exists(files, name))
  /\ [][\A path \in DOMAIN files \cap DOMAIN files' : files'[path] = files[path]]_vars

\* C24: for every configuration with a valid (non-blank) name whose save has
\* been answered ok, and until the name is deleted, list() contains the name and
\* load(name) returns a configuration equal to the saved one.
C24_SavedConfigIsListedAndLoaded ==
  \A i \in 1..Len(answers) :
    (answers[i].result = "ok" /\ ~IsNullOrWhiteSpace(answers[i].config.name)) =>
      /\ answers[i].config.name \in ListConfigs(files)
      /\ LoadConfig(files, answers[i].config.name) =
           [found |-> TRUE, config |-> answers[i].config]

----------------------------------------------------------------------------
(* Handlers run on the closures of an earlier render.  undo, redo and       *)
(* clearAll read undoStack, redoStack and particles from the render that    *)
(* created them, and Spawner's handleKeyDown reads the settings of the      *)
(* render whose effect registered it.  Spec lets React re-render after      *)
(* every handler; here the re-render that follows a completed load (state   *)
(* updates made in a promise continuation) and the re-run of Spawner's      *)
(* effect that follows a settings change are steps of their own, and a      *)
(* click or key press may be dispatched before them.                        *)

\* undo() as created by a render whose undoStack was seenUndo, run on the
\* pending state m: setUndoStack(prev) sets the value computed from the closure,
\* the other two updates are functions of the pending value.
undoIn(m, seenUndo) ==
  IF Len(seenUndo) = 0 THEN m
  ELSE LET lastBatch == seenUndo[Len(seenUndo)]
           c == cloneParticles(m.heap, lastBatch)
       IN [heap |-> c.heap,
           undoStack |-> SubSeq(seenUndo, 1, Len(seenUndo) - 1),
           redoStack |-> Append(m.redoStack, c.batch),
           particles |-> Slice0(m.particles, Len(m.particles) - Len(lastBatch))]

\* redo() as created by a render whose redoStack was seenRedo.
redoIn(m, seenRedo) ==
  IF Len(seenRedo) = 0 THEN m
  ELSE LET batchToRestore == seenRedo[Len(seenRedo)]
           c == cloneParticles(m.heap, batchToRestore)
       IN [heap |-> c.heap,
           redoStack |-> SubSeq(seenRedo, 1, Len(seenRedo) - 1),
           undoStack |-> Append(m.undoStack, c.batch),
           particles |-> m.particles \o batchToRestore]

\* clearAll() as created by a render whose particles was seenParticles.
clearAllIn(m, seenParticles) ==
  IF Len(seenParticles) = 0 THEN m
  ELSE [heap |-> m.heap, undoStack |-> <<>>, redoStack |-> <<>>,
        particles |-> <<>>]

\* The buttons whose handlers read the state of their render.
Requests == {"undo", "redo", "clear"}

\* The handler of button r, created by the render of machine state seen, run on
\* the pending state m.
Request(m, seen, r) ==
  CASE r = "undo" -> undoIn(m, seen.undoStack)
    [] r = "redo" -> redoIn(m, seen.redoStack)
    [] r = "clear" -> clearAllIn(m, seen.particles)

\* handleServerLoad completes (spawnParticles from the continuation of the
\* fetch), and button r is clicked before React has re-rendered: its handler is
\* the one the render before the load created.
LoadBeforeRender(cfg, kick, r) ==
  LET lv == LoadValues("server", cfg, kick)
      a == AllocBatch(heap, lv.vals)
      m1 == spawnParticles([Machine EXCEPT !.heap = a.heap], a.batch)
      m2 == Request(m1, Machine, r)
  IN /\ mounted
     /\ lv.ok
     /\ Len(m2.particles) <= MaxStore
     /\ Len(m2.undoStack) <= MaxBatches
     /\ Len(m2.redoStack) <= MaxBatches
     /\ Commit(m2, TRUE, "window",
               ViewStack(m2.heap, m2.undoStack)
                 \o Reverse(ViewStack(m2.heap, m2.redoStack)))
     /\ UNCHANGED <<settings, ticks>>

\* ControlPanel's effect: onSettingsChange(..) sets Simulator's settings; the
\* listener registered by Spawner's effect is still the one of the render before.
SettingsSet(s) ==
  /\ Dispatchable(pass)
  /\ mounted
  /\ s # settings
  /\ settings' = s
  /\ lastOp' = "settings"
  /\ preUndo' = <<>>
  /\ UNCHANGED <<heap, particles, undoStack, redoStack, meshCount,
                 instanceMatrix, instanceColor, mounted, listeners, ticks, pass,
                 log>>
  /\ UNCHANGED backendVars

\* Spawner's effect re-runs after the render with the new settings: the cleanup
\* removes the listener and the handleKeyDown of this render is registered.
SpawnerEffect ==
  /\ Dispatchable(pass)
  /\ mounted
  /\ listeners.spawn # <<settings>>
  /\ listeners' = [listeners EXCEPT !.spawn = Register(Unregister(@), settings)]
  /\ UNCHANGED <<heap, particles, undoStack, redoStack, settings, meshCount,
                 instanceMatrix, instanceColor, mounted, ticks, pass, lastOp,
                 log, preUndo>>
  /\ UNCHANGED backendVars

\* The randFloat(-0.2, 0.2) triple drawn for the spawns of WindowSpec.
WindowSpawnVels == { <<0, 0, 0>> }

WindowNext ==
  \/ \E point \in RawPoints :
       \E jit \in [1..MaxCount(listeners.spawn) -> Jitters] :
         \E vel \in [1..MaxCount(listeners.spawn) -> WindowSpawnVels] :
           SpawnKey(point, jit, vel)
  \/ Undo
  \/ \E s \in SettingsChoices : SettingsSet(s)
  \/ SpawnerEffect
  \/ \E cfg \in Configs : \E kick \in [1..Len(cfg.particles) -> LoadVels] :
       \E r \in Requests : LoadBeforeRender(cfg, kick, r)

WindowSpec == Init /\ [][WindowNext]_vars

\* C25: requests take effect in the order they were issued, each on the state
\* left by the one before it: when a load and then an undo, redo or clear are
\* issued before the next re-render, the store, the undo stack and the redo stack
\* are those obtained by applying the load completely and then the second request
\* to the state the load left.
C25_RequestsApplyInIssueOrder ==
  [][\A cfg \in Configs : \A kick \in [1..Len(cfg.particles) -> LoadVels] :
       \A r \in Requests :
         LoadBeforeRender(cfg, kick, r) =>
           LET a == AllocBatch(heap, LoadValues("server", cfg, kick).vals)
               first == spawnParticles([Machine EXCEPT !.heap = a.heap], a.batch)
               both == Request(first, first, r)
           IN /\ Store' = ViewBatch(both.heap, both.particles)
              /\ UndoV' = ViewStack(both.heap, both.undoStack)
              /\ RedoV' = ViewStack(both.heap, both.redoStack)
    ]_vars

\* C27: every spawn uses the settings most recently set before the spawn key was
\* pressed: the batch a key press has just spawned has the count the current
\* mode and count give, and each of its particles the current size and color and
\* the gravity of the current preset.
C27_SpawnUsesLatestSettings ==
  lastOp = "spawn" =>
    /\ Len(log) >= 1
    /\ Len(Last(log)) = Max(SpawnCount(settings), 0)
    /\ \A i \in 1..Len(Last(log)) :
         /\ Last(log)[i].size = settings.size
         /\ Last(log)[i].color = settings.color
         /\ Last(log)[i].gravity = getGravity(settings.gravity)

----------------------------------------------------------------------------
(* The frame, the spawn and the gravity of a particle *)

\* C26: an integration step changes only the position and velocity of the
\* particles in the store: the store keeps its length and order (each particle is
\* the one of the same index, advanced by one step), every particle keeps its
\* color, size and gravity, and the undo stack and the redo stack are unchanged.
C26_FrameChangesOnlyPositionAndVelocity ==
  [][(lastOp' = "frame") =>
       /\ Len(Store') = Len(Store)
       /\ Idents(Store') = Idents(Store)
       /\ \A i \in 1..Len(Store) : Store'[i] = StepValue(Store[i])
       /\ UndoV' = UndoV
       /\ RedoV' = RedoV
    ]_vars

\* C26 witness: a frame has moved a burst of two falling particles while their
\* batch is on the undo stack and another batch on the redo stack.
C26_Witness ==
  /\ lastOp = "frame"
  /\ Len(Store) = 2
  /\ Len(UndoV) = 1
  /\ Len(RedoV) = 1
  /\ Len(RedoV[1]) >= 1
  /\ Store[1].gravity > 0
  /\ Store[1].position # UndoV[1][1].position

\* C28: one press of the spawn key creates one batch: of exactly one particle in
\* single mode, whatever settings.count is, and of exactly settings.count
\* particles in burst mode; the batch is the new tail of the store and the new top
\* of the undo stack, and every particle of it has the size and the color of the
\* current settings.
C28_SpawnBatchSizeByMode ==
  [][(lastOp' = "spawn") =>
       LET b == Last(UndoV')
       IN /\ Len(UndoV') = Len(UndoV) + 1
          /\ (settings.mode = "single") => Len(b) = 1
          /\ (settings.mode = "burst") => Len(b) = settings.count
          /\ TailOf(Store', Len(b)) = b
          /\ Len(Store') = Len(Store) + Len(b)
          /\ \A i \in 1..Len(b) :
               b[i].size = settings.size /\ b[i].color = settings.color
    ]_vars

\* The gravities of a sequence of particle values.
Gravities(b) == [i \in 1..Len(b) |-> b[i].gravity]

\* C29: a spawned particle's gravity is the value the preset table gives for the
\* gravity setting at the key press (none 0, earth 0.01, moon 0.002, mars 0.004,
\* anything else 0) and never changes: a frame, a kick and a settings change
\* leave the gravity of every particle of the store as it is, a spawn or load
\* leaves those of the particles already there, an undo those of the particles
\* that stay, and a redo brings the batch back with its spawn-time gravities; the
\* batches on the stacks keep their spawn-time gravities too.
C29_GravityFixedAtSpawn ==
  /\ [](/\ getGravity("none") = 0
        /\ 100 * getGravity("earth") = Scale
        /\ 500 * getGravity("moon") = Scale
        /\ 250 * getGravity("mars") = Scale
        /\ getGravity("jupiter") = 0
        /\ Gravities(Concat(UndoV \o Reverse(RedoV))) = Gravities(Concat(log))
        /\ Gravities(Store) = Gravities(Concat(UndoV)))
  /\ [][/\ (lastOp' = "spawn") =>
             \A i \in 1..Len(Last(log')) :
               Last(log')[i].gravity = getGravity(settings.gravity)
        /\ (lastOp' \in {"frame", "kick", "settings"}) =>
             Gravities(Store') = Gravities(Store)
        /\ (lastOp' \in {"spawn", "load"}) =>
             SubSeq(Gravities(Store'), 1, Len(Store)) = Gravities(Store)
        /\ (lastOp' = "undo") =>
             Gravities(Store') = SubSeq(Gravities(Store), 1, Len(Store'))
        /\ (lastOp' = "redo" /\ Len(redoStack) # 0) =>
             Gravities(Store') =
               Gravities(Store) \o Gravities(log[Len(undoStack) + 1])
       ]_vars

\* C29 witness: batches spawned under two presets lie side by side with different
\* gravities after a frame, while the gravity setting names a third preset whose
\* value no particle has.
C29_Witness ==
  /\ lastOp = "frame"
  /\ Len(Store) >= 2
  /\ Store[1].gravity # Last(Store).gravity
  /\ \A i \in 1..Len(Store) : Store[i].gravity # getGravity(settings.gravity)

\* C30: after every handler that changes the store's membership (spawn, load,
\* undo, redo, clear) or replaces its particles (kick), and so in every state,
\* the active count is the store length, the color attribute has an entry for
\* every index below it and entry i is the color of particle i.
C30_ColorSlotsMatchStore ==
  /\ meshCount = Len(particles)
  /\ Len(instanceColor) >= meshCount
  /\ \A i \in 1..meshCount : instanceColor[i] = Color(Store[i].color)

\* C30 witness: an undo has removed a batch whose color differs from the color of
\* the last particle left, and the color attribute has shrunk with the store.
C30_Witness ==
  /\ lastOp = "undo"
  /\ Len(Store) >= 1
  /\ Len(RedoV) >= 1
  /\ Len(Last(RedoV)) >= 1
  /\ Color(Last(RedoV)[1].color) # Color(Last(Store).color)
  /\ Len(instanceColor) = Len(Store)

====
